---- MODULE Spec2Model ----
(***************************************************************************)
(* Model of the download-and-verification engine: Downloader (gui.py) and  *)
(* DownloadManager / download_nexus_mods (downloader.py).                  *)
(*                                                                         *)
(* One run thread is spawned by every Application.start_download call; all *)
(* run threads share the single Downloader object (state, download_queue,  *)
(* pending_verifications, counters), the Ledger file and the download      *)
(* directory.  Each download_batch call builds its own DownloadManager.    *)
(***************************************************************************)
EXTENDS Integers, Sequences, FiniteSets, TLC

\* ------------------------------------------------------------------ bounds
MaxRuns == 2        \* start_download invocations explored
MaxDegree == 2      \* largest configured "Parallel downloads" value
MaxRows == 3        \* longest work list taken from WorkListCatalog

Runs == 1..MaxRuns

\* ------------------------------------------------------------ value domains
Modes == {"Skip", "Size", "Hash"}

NoFile == "NoFile"                    \* a path with no file behind it
Partial == "partial"                  \* a file opened 'wb' and not fully written
FileNames == {"a", "b", "c"}

\* content fingerprints: xxh64/base64 digest and byte length of a file body
HashOf(c) == CASE c = "c1" -> "h1" [] c = "c2" -> "h2" [] OTHER -> "h0"
SizeOf(c) == CASE c = "c1" -> 1 [] c = "c2" -> 2 [] OTHER -> 0

\* paths: os.path.join(download_location, name) is relative to the working
\* directory, os.path.abspath makes it absolute; both name the same file
Rel(f) == [abs |-> FALSE, file |-> f]
NonePath == [abs |-> FALSE, file |-> ""]          \* Python None / no path
abspath(p) == [abs |-> TRUE, file |-> p.file]
exists(d, p) == p.file \in FileNames /\ d[p.file] # NoFile

\* a transfer result as kept in DownloadManager.results: False or the final path
Failure == [ok |-> FALSE, path |-> NonePath]
Success(p) == [ok |-> TRUE, path |-> p]

\* ------------------------------------------------------ decimal Size strings
IsDigit(s) == s \in {"0", "1", "2"}                 \* str.isdigit()
IntParses(s) == s \in {"0", "1", "2", "+1"}         \* int(s) does not raise
IntOf(s) == CASE s = "0" -> 0 [] s = "1" -> 1 [] s = "2" -> 2 [] s = "+1" -> 1

\* ------------------------------------------------------------ the work list
Row(u, n, h, s) == [URL |-> u, Name |-> n, Hash |-> h, Size |-> s]

Ref1 == "mods/10?tab=files&file_id=1"
Ref2 == "mods/20?tab=files&file_id=2"
RefBad == "mods/30?tab=files"                       \* no file_id
FileIdRefs == {Ref1, Ref2}

RowA == Row(Ref1, "a", "h1", "1")     \* served as "a", body c1: all correct
RowB == Row(Ref2, "b", "h2", "2")     \* served as "c", body c2: name differs
RowC == Row(Ref2, "b", "", "2")       \* Size only
RowD == Row(Ref1, "a", "", "")        \* no fingerprint at all
RowE == Row(Ref1, "b", "h2", "2")     \* body c1 disagrees with Hash and Size
RowF == Row(RefBad, "a", "h1", "1")   \* malformed reference
RowG == Row(Ref1, "a", "h1", "1MB")   \* Size is not a number
RowH == Row("", "a", "h1", "1")       \* URL missing
RowI == Row(Ref1, "a", "h1", "")      \* Hash only

WorkListCatalog ==
    { <<RowA>>, <<RowB>>, <<RowC>>, <<RowD>>, <<RowE>>, <<RowI>>, <<RowG>>,
      <<RowB, RowA>>, <<RowA, RowE>>, <<RowB, RowE>>, <<RowD, RowC>>,
      <<RowF, RowA>>, <<RowH, RowB>>, <<RowG, RowA>>, <<RowA, RowD>>,
      <<RowA, RowB, RowD>>, <<RowD, RowC, RowE>>, <<RowA, RowA, RowB>> }

WorkLists == { w \in WorkListCatalog : Len(w) <= MaxRows }

Hashes == {"h1", "h2"}

\* sorted(reader, key=lambda x: int(x.get('Size') or 0)): stable, ascending
SortKey(row) == IF row.Size = "" THEN 0 ELSE IntOf(row.Size)
SortRaises(rs) == \E j \in 1..Len(rs) : rs[j].Size # "" /\ ~IntParses(rs[j].Size)
\* the position under sorted(..., reverse=True)
Rank_desc(rs, j) ==
    1 + Cardinality({ x \in 1..Len(rs) :
                        \/ SortKey(rs[x]) > SortKey(rs[j])
                        \/ SortKey(rs[x]) = SortKey(rs[j]) /\ x < j })

\* the position of rs[j] in the sorted list
Rank(rs, j) ==
    1 + Cardinality({ x \in 1..Len(rs) :
                        \/ SortKey(rs[x]) < SortKey(rs[j])
                        \/ SortKey(rs[x]) = SortKey(rs[j]) /\ x < j })
Sorted(rs) ==
    [ p \in 1..Len(rs) |-> rs[CHOOSE j \in 1..Len(rs) : Rank(rs, j) = p] ]

\* ---------------------------------------------------------- Link Resolver
Direct1 == "cdn/files/a?key=1"
Direct2 == "cdn/files/c?key=2"
DirectOf(url) == IF url = Ref1 THEN Direct1 ELSE Direct2
HasFileId(url) == url \in FileIdRefs                \* re.search(r'file_id=(\d+)')

\* app.session_var: the session token; cookie_str is "nexusmods_session=" + it
Sessions == {"tok", "tok; theme=dark", "tok;x"}

\* lines 28-33: name, value = cookie.strip().split('=', 1) for every non-blank
\* piece of cookie_str.split(';'); a piece without '=' does not unpack
CookieParses(session) == session # "tok;x"

Raised == "raised"                     \* the call ended with an exception

\* the direct URL, "" for None, or Raised
get_nexusmods_download_url(url, session, reply) ==
    IF ~HasFileId(url) THEN ""
    ELSE IF ~CookieParses(session) THEN Raised
    ELSE IF reply.fault THEN ""
    ELSE IF reply.status = 200
         THEN IF reply.json THEN reply.url ELSE ""
         ELSE ""

\* --------------------------------------------------------- Transfer server
\* what a GET on a direct URL answers with status 200
HeaderOf(durl) == IF durl = Direct1 THEN "attachment; filename=\"a\"" ELSE ""
BodyOf(durl) == IF durl = Direct1 THEN "c1" ELSE "c2"

\* re.search(r'filename="([^"]+)"', cd), else cd.split('filename=')[-1].strip('"')
ContentDispositionName(cd) ==
    CASE cd = "attachment; filename=\"a\"" -> "a"
      [] cd = "attachment; filename=c" -> "c"
      [] OTHER -> cd

\* os.path.basename(url.split('?')[0])
UrlBaseName(durl) ==
    CASE durl = Direct1 -> "a"
      [] durl = Direct2 -> "c"
      [] OTHER -> ""

\* download_file lines 112-134: the path the body is written to
FinalPath(durl, cd, filepath) ==
    LET fromHeader == IF cd # "" THEN ContentDispositionName(cd) ELSE ""
        correct == IF fromHeader # "" THEN fromHeader ELSE UrlBaseName(durl)
    IN  IF correct # "" THEN Rel(correct) ELSE filepath

\* ------------------------------------------------------ Verification Ledger
\* Downloader.state: a mapping Hash -> {path, verified}
\* an assignment that drops the other keys
Put_only(st, h, rec) == [ x \in {h} |-> rec ]

\* self.state[h] = rec
Put(st, h, rec) == [ x \in (DOMAIN st) \cup {h} |-> IF x = h THEN rec ELSE st[x] ]
EmptyState == [ x \in {} |-> [path |-> NonePath, verified |-> FALSE] ]

\* the Ledger file download_state.json: absent, a complete JSON mapping, or
\* a truncated / partly written one
FileAbsent == [st |-> "absent", data |-> EmptyState]
FileTorn == [st |-> "torn", data |-> EmptyState]
FileOf(st) == [st |-> "ok", data |-> st]

\* a save that dumps an empty mapping
save_state_empty(st) == FileOf(EmptyState)

\* save_state: the file after json.dump of the mapping
save_state(st) == FileOf(st)

\* a load that answers a missing file with a blank record per known Hash
load_state_blank(st, file) ==
    IF file.st = "ok" THEN file.data
    ELSE [ x \in {"h1", "h2"} |-> [path |-> NonePath, verified |-> FALSE] ]

\* load_state: the mapping in memory afterwards
load_state(st, file) == IF file.st = "ok" THEN file.data ELSE st

\* ---------------------------------------------------- Fingerprint Verifier
\* verify_and_update_state, the part under "if success": does it raise
\* (os.path.getsize / open on a missing file, int() on a non-number)
VerifyRaises(p, h, s, m, d) ==
    \/ m = "Size" /\ s # "" /\ (~exists(d, p) \/ ~IntParses(s))
    \/ m # "Skip" /\ m # "Size" /\ h # "" /\ ~exists(d, p)

\* a verifier that lets an item pass when the value to compare with is missing
Verified_lenient(p, h, s, m, d) ==
    CASE m = "Skip" -> TRUE
      [] m = "Size" -> s = "" \/ SizeOf(d[p.file]) = IntOf(s)
      [] OTHER -> h = "" \/ HashOf(d[p.file]) = h

\* ... and the value of `verified` when it does not raise
Verified(p, h, s, m, d) ==
    CASE m = "Skip" -> TRUE
      [] m = "Size" -> s # "" /\ SizeOf(d[p.file]) = IntOf(s)
      [] OTHER -> h # "" /\ HashOf(d[p.file]) = h

\* a verdict that follows the transfer result alone
Verdict_transfer(filepath, h, s, success, m, d) ==
    IF success THEN "Confirmed" ELSE "Failed"

\* the verdict logged for the item
Verdict(filepath, h, s, success, m, d) ==
    IF success /\ ~VerifyRaises(abspath(filepath), h, s, m, d)
       /\ Verified(abspath(filepath), h, s, m, d)
    THEN "Confirmed" ELSE "Failed"

\* Downloader.state after verify_and_update_state
verify_and_update_state(st, filepath, h, s, success, m, d) ==
    LET p == abspath(filepath) IN
    IF h = "" THEN st
    ELSE IF success /\ ~VerifyRaises(p, h, s, m, d)
         THEN Put(st, h, [path |-> p, verified |-> Verified(p, h, s, m, d)])
         ELSE Put(st, h, [path |-> NonePath, verified |-> FALSE])

\* check_existing_file lines 227-251: the Ledger record at the item's Hash
\* is verified and its path exists
StateHit(st, h, d) ==
    /\ h # ""
    /\ h \in DOMAIN st
    /\ st[h].verified
    /\ st[h].path # NonePath
    /\ exists(d, st[h].path)

\* check_existing_file lines 253-296: the fallback on the path built from Name
PathCheck(filepath, h, s, m, d) ==
    LET p == abspath(filepath) IN
    IF ~exists(d, p) THEN FALSE
    ELSE CASE m = "Skip" -> TRUE
           [] m = "Size" -> s # "" /\ IsDigit(s) /\ SizeOf(d[p.file]) = IntOf(s)
           [] OTHER -> h # "" /\ HashOf(d[p.file]) = h

\* a check that looks at the path built from Name only
check_existing_file_pathonly(st, filepath, h, s, m, d) ==
    PathCheck(filepath, h, s, m, d)

\* check_existing_file: the returned value
check_existing_file(st, filepath, h, s, m, d) ==
    IF StateHit(st, h, d)
    THEN CASE m = "Skip" -> TRUE
           [] m = "Size" ->
                IF s = "" \/ ~IsDigit(s) THEN FALSE
                ELSE IF SizeOf(d[st[h].path.file]) = IntOf(s) THEN TRUE
                ELSE PathCheck(filepath, h, s, m, d)
           [] OTHER -> TRUE
    ELSE PathCheck(filepath, h, s, m, d)

\* check_existing_file lines 285-291: the Hash fallback records the file
CheckRecords(st, filepath, h, s, m, d) ==
    /\ m = "Hash"
    /\ ~StateHit(st, h, d)
    /\ PathCheck(filepath, h, s, m, d)

\* -------------------------------------------------------------------- state
VARIABLES
    rows,                   \* output.csv: the work list
    mode,                   \* app.verification_mode_var
    queue_size_var,         \* app.queue_size_var
    disk,                   \* the download directory: file name -> body
    state_file,             \* download_state.json
    state,                  \* Downloader.state
    download_queue,         \* Downloader.download_queue
    pending_verifications,  \* Downloader.pending_verifications
    queue_size,             \* Downloader.queue_size
    total_files,            \* Downloader.total_files
    processed_files,        \* Downloader.processed_files
    pc,                     \* per run thread: position in Downloader.run
    i,                      \* per run thread: index of the row being processed
    batch,                  \* per run thread: urls/filepaths of download_batch
    tasks,                  \* per run thread: the DownloadManager's downloads
    running,                \* per run thread: DownloadManager.running
    loop,                   \* per run thread: the run_loop thread
    results,                \* per run thread: what download_batch returned
    k,                      \* per run thread: position in process_results
    outcome,                \* history: per run and item, how it was settled
    in_succession,          \* history: the run began after the earlier ones ended
    durable,                \* history: Hashes on file when a batch last completed
    reported,               \* history: per run, the last update_progress pair
    attempts,               \* history: per run and item, what was done for it
    hashed,                 \* history: <<Hash, file>> pairs a hash computation matched
    probe,                  \* a pure function under test: its inputs and its result
    crashed                 \* the process was killed

vars == << rows, mode, queue_size_var, disk, state_file, state, download_queue,
           pending_verifications, queue_size, total_files, processed_files,
           pc, i, batch, tasks, running, loop, results, k, outcome,
           in_succession, durable, reported, attempts, hashed, probe,
           crashed >>

hist == << in_succession, durable, reported, attempts, hashed, probe >>
mgrVars == << batch, tasks, running, loop >>

\* an entry of the history: how an item was settled and under which mode
Settled(v, m) == [v |-> v, m |-> m]

\* Application.update_progress(processed, total) with a pair of zeros
update_progress_zero(processed, total) == << 0, 0 >>

\* Application.update_progress(processed, total): the pair shown by the GUI
update_progress(processed, total) == << processed, total >>

NoReport == << -1, 0 >>      \* the run has not called update_progress yet

\* per item of a run: times put on download_queue, times handed to
\* get_nexusmods_download_url, times given to manager.add_download
NoAttempt == [enq |-> 0, post |-> 0, get |-> 0]

SR == Sorted(rows)          \* rows as Downloader.run iterates over them
NRows == Len(rows)

NoProbe == [fn |-> "none"]    \* no function is under test

\* the program after construction: Application.__init__, Downloader.__init__
Constructed ==
    /\ rows \in WorkLists
    /\ mode \in Modes
    /\ queue_size_var \in 1..MaxDegree
    /\ disk = [ f \in FileNames |-> NoFile ]
    /\ state_file = FileAbsent
    /\ state = EmptyState
    /\ download_queue = << >>
    /\ pending_verifications = << >>
    /\ queue_size = 5
    /\ total_files = 0
    /\ processed_files = 0
    /\ pc = [ r \in Runs |-> "idle" ]
    /\ i = [ r \in Runs |-> 0 ]
    /\ batch = [ r \in Runs |-> << >> ]
    /\ tasks = [ r \in Runs |-> << >> ]
    /\ running = [ r \in Runs |-> FALSE ]
    /\ loop = [ r \in Runs |-> "none" ]
    /\ results = [ r \in Runs |-> << >> ]
    /\ k = [ r \in Runs |-> 0 ]
    /\ outcome = [ r \in Runs |-> [ x \in 1..Len(rows) |-> Settled("none", "") ] ]
    /\ in_succession = [ r \in Runs |-> FALSE ]
    /\ durable = {}
    /\ reported = [ r \in Runs |-> NoReport ]
    /\ attempts = [ r \in Runs |-> [ x \in 1..Len(rows) |-> NoAttempt ] ]
    /\ hashed = {}
    /\ crashed = FALSE

Init ==
    /\ Constructed
    /\ probe = NoProbe

\* ------------------------------------------------------------ the GUI thread
\* Exploration scope of overlapping clicks: the second click may come while
\* the first run is still in flight, on work lists of one row; every other
\* click comes after the earlier runs have ended.
OverlapExplored(r) == r = 2 /\ Len(rows) = 1

\* Application.start_download: spawns a thread running Downloader.run on the
\* one Downloader object; the button is never disabled
start_download(r) ==
    /\ ~crashed
    /\ pc[r] = "idle"
    /\ \A x \in Runs : x < r => pc[x] # "idle"
    /\ OverlapExplored(r) \/ \A x \in Runs : x < r => pc[x] = "done"
    /\ pc' = [pc EXCEPT ![r] = "run"]
    /\ in_succession' = [in_succession EXCEPT
                            ![r] = \A x \in Runs : x < r => pc[x] = "done"]
    /\ UNCHANGED << rows, mode, queue_size_var, disk, state_file, state,
                    download_queue, pending_verifications, queue_size,
                    total_files, processed_files, i, batch, tasks, running,
                    loop, results, k, outcome, durable, reported, attempts,
                    hashed, probe, crashed >>

\* the user picks another verification mode in the settings panel; explored
\* while no run is in flight
ChangeMode ==
    /\ ~crashed
    /\ \A x \in Runs : pc[x] \in {"idle", "done"}
    /\ \E m \in Modes \ {mode} : mode' = m
    /\ UNCHANGED << rows, queue_size_var, disk, state_file, state,
                    download_queue, pending_verifications, queue_size,
                    total_files, processed_files, pc, i, batch, tasks, running,
                    loop, results, k, outcome, hist, crashed >>

\* ------------------------------------------------------------ Downloader.run
\* run lines 341-353: read the degree, load the Ledger, sort the work list
RunBegin(r) ==
    /\ ~crashed
    /\ pc[r] = "run"
    /\ queue_size' = queue_size_var
    /\ state' = load_state(state, state_file)
    /\ IF SortRaises(rows)
       THEN /\ pc' = [pc EXCEPT ![r] = "finally"]
            /\ UNCHANGED << total_files, i >>
            /\ reported' = reported
       ELSE /\ total_files' = Len(rows)
            /\ reported' = [reported EXCEPT ![r] = update_progress(0, total_files')]
            /\ i' = [i EXCEPT ![r] = 1]
            /\ pc' = [pc EXCEPT ![r] = "row"]
    /\ UNCHANGED << rows, mode, queue_size_var, disk, state_file,
                    download_queue, pending_verifications, processed_files,
                    batch, tasks, running, loop, results, k, outcome,
                    in_succession, durable, attempts, hashed, probe, crashed >>

\* run lines 355-357 with process_csv_row: one row of the work list
ProcessRow(r) ==
    /\ ~crashed
    /\ pc[r] = "row"
    /\ LET row == SR[i[r]]
           filepath == Rel(row.Name)
           dropped == row.URL = "" \/ row.Name = ""
           valid == ~dropped /\ check_existing_file(state, filepath, row.Hash,
                                                   row.Size, mode, disk)
           records == ~dropped /\ CheckRecords(state, filepath, row.Hash,
                                               row.Size, mode, disk)
           enq == ~dropped /\ ~valid
           q2 == IF enq
                 THEN Append(download_queue,
                             [url |-> row.URL, filepath |-> filepath,
                              item |-> i[r], run |-> r])
                 ELSE download_queue
       IN  /\ state' = IF records
                       THEN Put(state, row.Hash,
                                [path |-> abspath(filepath), verified |-> TRUE])
                       ELSE state
           /\ state_file' = IF records THEN save_state(state') ELSE state_file
           /\ hashed' = IF records THEN hashed \cup {<< row.Hash, row.Name >>}
                        ELSE hashed
           /\ processed_files' = IF enq THEN processed_files ELSE processed_files + 1
           /\ reported' = IF enq THEN reported
                          ELSE [reported EXCEPT ![r] =
                                  update_progress(processed_files', total_files)]
           /\ attempts' = IF enq
                          THEN [attempts EXCEPT ![r][i[r]].enq = @ + 1]
                          ELSE attempts
           /\ download_queue' = q2
           /\ pending_verifications' =
                 IF enq
                 THEN Append(pending_verifications,
                             [filepath |-> filepath, hash |-> row.Hash,
                              size |-> row.Size, url |-> row.URL,
                              item |-> i[r], run |-> r])
                 ELSE pending_verifications
           /\ outcome' = [outcome EXCEPT ![r][i[r]] =
                             IF dropped THEN Settled("dropped", "")
                             ELSE IF valid THEN Settled("valid", mode)
                             ELSE Settled("queued", "")]
           /\ IF Len(q2) >= queue_size \/ i[r] = NRows
              THEN /\ pc' = [pc EXCEPT ![r] = "batch"]
                   /\ i' = i
              ELSE /\ pc' = pc
                   /\ i' = [i EXCEPT ![r] = i[r] + 1]
    /\ UNCHANGED << rows, mode, queue_size_var, disk, queue_size, total_files,
                    batch, tasks, running, loop, results, k, in_succession,
                    durable, probe, crashed >>

\* ----------------------------------------- download_batch, download_nexus_mods
ReplyKinds == {"fault", "403", "badjson", "nourl", "ok"}
Reply(url, kind) ==
    CASE kind = "fault" -> [fault |-> TRUE, status |-> 0, json |-> FALSE, url |-> ""]
      [] kind = "403" -> [fault |-> FALSE, status |-> 403, json |-> TRUE, url |-> ""]
      [] kind = "badjson" -> [fault |-> FALSE, status |-> 200, json |-> FALSE, url |-> ""]
      [] kind = "nourl" -> [fault |-> FALSE, status |-> 200, json |-> TRUE, url |-> ""]
      [] OTHER -> [fault |-> FALSE, status |-> 200, json |-> TRUE, url |-> DirectOf(url)]

Min(a, b) == IF a < b THEN a ELSE b
Last(S) == CHOOSE x \in S : \A y \in S : y <= x

\* url_map[url]: the filepath of the last dequeued entry with this url
url_map(taken, url) ==
    taken[Last({ j \in 1..Len(taken) : taken[j].url = url })].filepath

\* download_batch lines 318/324 and download_nexus_mods line 269: all False
AllFalse(taken) ==
    [ j \in 1..Len(taken) |->
        [filepath |-> url_map(taken, taken[j].url), result |-> Failure] ]

\* the loop of download_batch without its len(urls) < queue_size test
BatchCount_all(q, qs) == Len(q)

\* download_batch line 303: how many entries leave the queue
BatchCount(q, qs) == IF qs < 0 THEN 0 ELSE Min(Len(q), qs)

\* a queue whose get() leaves the entry on the queue
Rest_peek(q, n) == q

\* download_queue after n calls of get()
Rest(q, n) == SubSeq(q, n + 1, Len(q))

\* the history of the items of a batch after download_nexus_mods went through
\* its urls: one resolution each, one download added for each direct URL
\* (kept for the runs whose thread has not ended)
Attempted(att, taken, cand) ==
    [ rr \in Runs |-> [ x \in DOMAIN att[rr] |->
        LET S == { j \in 1..Len(taken) : /\ taken[j].run = rr
                                         /\ taken[j].item = x
                                         /\ pc[rr] # "done" }
        IN  [enq |-> att[rr][x].enq,
             post |-> att[rr][x].post + Cardinality(S),
             get |-> att[rr][x].get
                       + Cardinality({ j \in S : cand[j].durl # "" })] ] ]

\* download_nexus_mods lines 262-266: the first url whose resolution raises
\* ends the loop and the call (download_batch line 322 catches it); 0 for none
FirstRaised(cand) ==
    LET S == { j \in 1..Len(cand) : cand[j].durl = Raised }
    IN  IF S = {} THEN 0 ELSE CHOOSE x \in S : \A y \in S : x <= y

\* the candidates with no direct URL
Unresolved(cand) == [ j \in 1..Len(cand) |-> [cand[j] EXCEPT !.durl = ""] ]

\* download_batch up to manager.start_monitor()
DownloadBatch(r) ==
    /\ ~crashed
    /\ pc[r] = "batch"
    /\ LET n == BatchCount(download_queue, queue_size)
           taken == SubSeq(download_queue, 1, n)
       IN  /\ download_queue' = Rest(download_queue, n)
           /\ IF n = 0
              THEN /\ results' = [results EXCEPT ![r] = << >>]
                   /\ k' = [k EXCEPT ![r] = 1]
                   /\ pc' = [pc EXCEPT ![r] = "results"]
                   /\ UNCHANGED << mgrVars, attempts >>
              ELSE \E game_id \in BOOLEAN, session \in Sessions,
                      kinds \in [1..n -> ReplyKinds] :
                   LET cand == [ j \in 1..n |->
                                   [ref |-> taken[j].url,
                                    durl |-> get_nexusmods_download_url(
                                                 taken[j].url, session,
                                                 Reply(taken[j].url, kinds[j])),
                                    filepath |-> taken[j].filepath,
                                    item |-> taken[j].item,
                                    run |-> taken[j].run,
                                    st |-> "created",
                                    status |-> 0,
                                    res |-> Failure,
                                    final |-> NonePath] ]
                       downloads == SelectSeq(cand, LAMBDA c : c.durl # "")
                       raisedAt == FirstRaised(cand)
                   IN  IF ~game_id \/ raisedAt # 0 \/ downloads = << >>
                       THEN /\ results' = [results EXCEPT ![r] = AllFalse(taken)]
                            /\ k' = [k EXCEPT ![r] = 1]
                            /\ pc' = [pc EXCEPT ![r] = "results"]
                            /\ attempts' =
                                  IF ~game_id THEN attempts
                                  ELSE IF raisedAt # 0
                                  THEN Attempted(attempts,
                                                 SubSeq(taken, 1, raisedAt),
                                                 Unresolved(cand))
                                  ELSE Attempted(attempts, taken, cand)
                            /\ UNCHANGED mgrVars
                       ELSE /\ attempts' = Attempted(attempts, taken, cand)
                            /\ batch' = [batch EXCEPT ![r] = taken]
                            /\ tasks' = [tasks EXCEPT ![r] = downloads]
                            /\ running' = [running EXCEPT ![r] = TRUE]
                            /\ loop' = [loop EXCEPT ![r] = "running"]
                            /\ pc' = [pc EXCEPT ![r] = "wait"]
                            /\ UNCHANGED << results, k >>
    /\ UNCHANGED << rows, mode, queue_size_var, disk, state_file, state,
                    pending_verifications, queue_size, total_files,
                    processed_files, i, outcome, in_succession, durable,
                    reported, hashed, probe, crashed >>

\* ------------------------------------------------ DownloadManager.download_file
SetTask(r, j, t) == [tasks EXCEPT ![r][j] = t]

\* lines 83-100, up to the first await: makedirs and tqdm run outside the try
TaskBegin(r, j) ==
    /\ ~crashed
    /\ loop[r] = "running"
    /\ j \in 1..Len(tasks[r])
    /\ tasks[r][j].st = "created"
    /\ \A x \in 1..(j - 1) : tasks[r][x].st # "created"
    /\ \E raises \in BOOLEAN :
          tasks' = SetTask(r, j, [tasks[r][j] EXCEPT
                                    !.st = IF raises THEN "raised" ELSE "get"])
    /\ UNCHANGED << rows, mode, queue_size_var, disk, state_file, state,
                    download_queue, pending_verifications, queue_size,
                    total_files, processed_files, pc, i, batch, running, loop,
                    results, k, outcome, hist, crashed >>

\* response.status of an answer; 0 stands for no response at all
StatusOf(answer) ==
    CASE answer = "200" -> 200
      [] answer = "404" -> 404
      [] OTHER -> 0

\* a task that goes on to the file whatever the status
OpensFile_always(answer) == answer # "fault"

\* lines 108-110: only a response with status 200 gets past the status test
OpensFile(answer) == answer # "fault" /\ StatusOf(answer) = 200

\* lines 102-143/159: the response arrives; on 200 the final path is opened 'wb'
TaskRespond(r, j) ==
    /\ ~crashed
    /\ loop[r] = "running"
    /\ j \in 1..Len(tasks[r])
    /\ tasks[r][j].st = "get"
    /\ \E answer \in {"fault", "404", "200"} :
          IF OpensFile(answer)
          THEN LET t == tasks[r][j]
                   final == FinalPath(t.durl, HeaderOf(t.durl), t.filepath)
               IN  /\ tasks' = SetTask(r, j, [t EXCEPT !.st = "writing",
                                                       !.status = StatusOf(answer),
                                                       !.final = final])
                   /\ disk' = [disk EXCEPT ![final.file] = Partial]
          ELSE /\ tasks' = SetTask(r, j, [tasks[r][j] EXCEPT
                                            !.st = "done",
                                            !.status = StatusOf(answer),
                                            !.res = Failure])
               /\ disk' = disk
    /\ UNCHANGED << rows, mode, queue_size_var, state_file, state,
                    download_queue, pending_verifications, queue_size,
                    total_files, processed_files, pc, i, batch, running, loop,
                    results, k, outcome, hist, crashed >>

\* lines 143-173: the body is streamed to the end, or the stream breaks
TaskFinish(r, j) ==
    /\ ~crashed
    /\ loop[r] = "running"
    /\ j \in 1..Len(tasks[r])
    /\ tasks[r][j].st = "writing"
    /\ \E complete \in BOOLEAN :
          LET t == tasks[r][j] IN
          IF complete
          THEN /\ tasks' = SetTask(r, j, [t EXCEPT !.st = "done",
                                                   !.res = Success(t.final)])
               /\ disk' = [disk EXCEPT ![t.final.file] = BodyOf(t.durl)]
          ELSE /\ tasks' = SetTask(r, j, [t EXCEPT !.st = "done",
                                                   !.res = Failure])
               /\ disk' = disk
    /\ UNCHANGED << rows, mode, queue_size_var, state_file, state,
                    download_queue, pending_verifications, queue_size,
                    total_files, processed_files, pc, i, batch, running, loop,
                    results, k, outcome, hist, crashed >>

\* a gather that returns with the first task that has returned
GatherDone_any(ts) == \E j \in 1..Len(ts) : ts[j].st = "done"

\* asyncio.gather(*tasks) returns once every task has returned
GatherDone(ts) == \A j \in 1..Len(ts) : ts[j].st = "done"

\* start_monitor.run_loop lines 212-214: gather returned, running is cleared
LoopExit(r) ==
    /\ ~crashed
    /\ loop[r] = "running"
    /\ GatherDone(tasks[r])
    /\ running' = [running EXCEPT ![r] = FALSE]
    /\ loop' = [loop EXCEPT ![r] = "exited"]
    /\ UNCHANGED << rows, mode, queue_size_var, disk, state_file, state,
                    download_queue, pending_verifications, queue_size,
                    total_files, processed_files, pc, i, batch, tasks,
                    results, k, outcome, hist, crashed >>

\* start_monitor.run_loop line 213: gather re-raises the exception of a task,
\* run_until_complete raises and the thread ends before line 214
LoopDie(r) ==
    /\ ~crashed
    /\ loop[r] = "running"
    /\ \E j \in 1..Len(tasks[r]) : tasks[r][j].st = "raised"
    /\ loop' = [loop EXCEPT ![r] = "died"]
    /\ UNCHANGED << rows, mode, queue_size_var, disk, state_file, state,
                    download_queue, pending_verifications, queue_size,
                    total_files, processed_files, pc, i, batch, tasks, running,
                    results, k, outcome, hist, crashed >>

\* a task that has neither returned nor raised
Unfinished(t) == t.st \in {"created", "get", "writing"}

\* url_to_gid.get(url): the last download added for this url, 0 for None
url_to_gid(ts, url) ==
    LET S == { j \in 1..Len(ts) : ts[j].ref = url }
    IN  IF S = {} THEN 0 ELSE Last(S)

\* download_nexus_mods lines 281-289 zipped by download_batch line 321
final_results(taken, ts) ==
    [ j \in 1..Len(taken) |->
        [filepath |-> url_map(taken, taken[j].url),
         result |-> IF url_to_gid(ts, taken[j].url) = 0 THEN Failure
                    ELSE ts[url_to_gid(ts, taken[j].url)].res] ]

\* wait_for_downloads returns once running is False; shutdown; results
WaitReturn(r) ==
    /\ ~crashed
    /\ pc[r] = "wait"
    /\ ~running[r]
    /\ results' = [results EXCEPT ![r] = final_results(batch[r], tasks[r])]
    /\ k' = [k EXCEPT ![r] = 1]
    /\ pc' = [pc EXCEPT ![r] = "results"]
    /\ batch' = [batch EXCEPT ![r] = << >>]
    /\ tasks' = [tasks EXCEPT ![r] = SelectSeq(tasks[r], Unfinished)]
    /\ loop' = [loop EXCEPT ![r] = "none"]
    /\ UNCHANGED << rows, mode, queue_size_var, disk, state_file, state,
                    download_queue, pending_verifications, queue_size,
                    total_files, processed_files, i, running, outcome, hist, crashed >>

\* ------------------------------------------------- Downloader.process_results
\* next((v for v in pending_verifications if v[0] == filepath), None): 0 for None
verification_info(pend, filepath) ==
    LET S == { x \in 1..Len(pend) : pend[x].filepath = filepath }
    IN  IF S = {} THEN 0 ELSE CHOOSE x \in S : \A y \in S : x <= y

Remove(seq, x) == SubSeq(seq, 1, x - 1) \o SubSeq(seq, x + 1, Len(seq))

\* a verification that looks at the path requested from Name
actual_filepath_requested(result, fp) == fp

\* process_results lines 332-333: result if is_success else fp
actual_filepath(result, fp) == IF result.ok THEN result.path ELSE fp

\* verify_and_update_state line 178-179: the file was hashed and the digest
\* equals the expected Hash
HashMatched(filepath, h, success, m, d) ==
    /\ success
    /\ m \notin {"Skip", "Size"}
    /\ h # ""
    /\ exists(d, abspath(filepath))
    /\ HashOf(d[filepath.file]) = h

\* one iteration of process_results, verify_and_update_state and its
\* save_state included
Verify(r) ==
    /\ ~crashed
    /\ pc[r] = "results"
    /\ k[r] <= Len(results[r])
    /\ LET e == results[r][k[r]]
           x == verification_info(pending_verifications, e.filepath)
       IN  IF x = 0
           THEN UNCHANGED << state, state_file, pending_verifications,
                             processed_files, outcome, reported, hashed >>
           ELSE LET v == pending_verifications[x]
                    is_success == e.result.ok
                    actual == actual_filepath(e.result, v.filepath)
                IN  /\ state' = verify_and_update_state(state, actual,
                                    v.hash, v.size, is_success, mode, disk)
                    /\ hashed' = IF HashMatched(actual, v.hash, is_success,
                                                mode, disk)
                                 THEN hashed \cup {<< v.hash, actual.file >>}
                                 ELSE hashed
                    /\ state_file' = save_state(state')
                    /\ pending_verifications' = Remove(pending_verifications, x)
                    /\ processed_files' = processed_files + 1
                    /\ reported' = [reported EXCEPT ![r] =
                                      update_progress(processed_files', total_files)]
                    /\ outcome' = [outcome EXCEPT ![v.run][v.item] =
                                     Settled(Verdict(actual, v.hash,
                                                     v.size, is_success, mode,
                                                     disk), mode)]
    /\ k' = [k EXCEPT ![r] = k[r] + 1]
    /\ UNCHANGED << rows, mode, queue_size_var, disk, download_queue,
                    queue_size, total_files, pc, i, batch, tasks, running,
                    loop, results, in_succession, durable, attempts, probe,
                    crashed >>

\* run line 360 and the loop header: the save after a batch, then the next row
BatchSave(r) ==
    /\ ~crashed
    /\ pc[r] = "results"
    /\ k[r] > Len(results[r])
    /\ state_file' = save_state(state)
    /\ durable' = durable \cup { h \in DOMAIN state_file'.data :
                                    state_file'.data[h].verified }
    /\ results' = [results EXCEPT ![r] = << >>]
    /\ k' = [k EXCEPT ![r] = 0]
    /\ IF i[r] < NRows
       THEN /\ i' = [i EXCEPT ![r] = i[r] + 1]
            /\ pc' = [pc EXCEPT ![r] = "row"]
       ELSE /\ i' = i
            /\ pc' = [pc EXCEPT ![r] = "finally"]
    /\ UNCHANGED << rows, mode, queue_size_var, disk, state, download_queue,
                    pending_verifications, queue_size, total_files,
                    processed_files, batch, tasks, running, loop, outcome,
                    in_succession, reported, attempts, hashed, probe, crashed >>

\* run lines 362-366: save_state and download_complete; the thread ends and
\* the history kept about its reports and attempts ends with it
Finally(r) ==
    /\ ~crashed
    /\ pc[r] = "finally"
    /\ state_file' = save_state(state)
    /\ pc' = [pc EXCEPT ![r] = "done"]
    /\ reported' = [reported EXCEPT ![r] = NoReport]
    /\ attempts' = [attempts EXCEPT ![r] = [ x \in 1..Len(rows) |-> NoAttempt ]]
    /\ UNCHANGED << rows, mode, queue_size_var, disk, state, download_queue,
                    pending_verifications, queue_size, total_files,
                    processed_files, i, batch, tasks, running, loop, results,
                    k, outcome, in_succession, durable, hashed, probe, crashed >>

\* ------------------------------------------------------------ specification
Next ==
    \/ ChangeMode
    \/ \E r \in Runs : start_download(r)
    \/ \E r \in Runs : RunBegin(r)
    \/ \E r \in Runs : ProcessRow(r)
    \/ \E r \in Runs : DownloadBatch(r)
    \/ \E r \in Runs : \E j \in 1..MaxDegree : TaskBegin(r, j)
    \/ \E r \in Runs : \E j \in 1..MaxDegree : TaskRespond(r, j)
    \/ \E r \in Runs : \E j \in 1..MaxDegree : TaskFinish(r, j)
    \/ \E r \in Runs : LoopExit(r)
    \/ \E r \in Runs : LoopDie(r)
    \/ \E r \in Runs : WaitReturn(r)
    \/ \E r \in Runs : Verify(r)
    \/ \E r \in Runs : BatchSave(r)
    \/ \E r \in Runs : Finally(r)

Spec == Init /\ [][Next]_vars

\* ------------------------------------------------- the functions on their own
\* get_nexusmods_download_url and the file naming of download_file applied
\* to inputs drawn from small sets, the rest of the program standing still.
DirectBare == "cdn/files/?key=3"       \* a direct URL whose path ends with '/'
ContentDispositions ==
    { "", "attachment; filename=\"a\"", "attachment; filename=c", "inline" }

\* the header has a filename parameter
CarriesFilename(cd) ==
    cd \in { "attachment; filename=\"a\"", "attachment; filename=c" }

ResolveInputs ==
    { [fn |-> "resolve", url |-> u, session |-> t, kind |-> kd,
       done |-> FALSE, out |-> ""] :
         u \in {Ref1, Ref2, RefBad}, t \in Sessions, kd \in ReplyKinds }

NameInputs ==
    { [fn |-> "name", durl |-> u, cd |-> c, filepath |-> Rel(f),
       done |-> FALSE, out |-> NonePath] :
         u \in {Direct1, Direct2, DirectBare}, c \in ContentDispositions,
         f \in {"a", "b"} }

progVars == << rows, mode, queue_size_var, disk, state_file, state,
               download_queue, pending_verifications, queue_size, total_files,
               processed_files, pc, i, batch, tasks, running, loop, results,
               k, outcome, in_succession, durable, reported, attempts, hashed,
               crashed >>

InitPure ==
    /\ Constructed
    /\ rows = << RowA >>
    /\ mode = "Hash"
    /\ queue_size_var = 1
    /\ probe \in ResolveInputs \cup NameInputs

\* one call of get_nexusmods_download_url
ApplyResolve ==
    /\ probe.fn = "resolve"
    /\ ~probe.done
    /\ probe' = [probe EXCEPT
                    !.done = TRUE,
                    !.out = get_nexusmods_download_url(
                                probe.url, probe.session,
                                Reply(probe.url, probe.kind))]
    /\ UNCHANGED progVars

\* download_file lines 112-134 on one response
ApplyName ==
    /\ probe.fn = "name"
    /\ ~probe.done
    /\ probe' = [probe EXCEPT
                    !.done = TRUE,
                    !.out = FinalPath(probe.durl, probe.cd, probe.filepath)]
    /\ UNCHANGED progVars

NextPure == ApplyResolve \/ ApplyName

SpecPure == InitPure /\ [][NextPure]_vars

\* ------------------------------------------------------------ process crash
\* The run threads and the loop threads are daemon threads: when the process
\* is killed, or the main thread ends because the window was closed or a
\* termination signal arrived, they stop wherever they are.  No signal is
\* delivered to a run thread, so the KeyboardInterrupt handler of
\* download_nexus_mods is not a step of a run.
\* the next step of run r is inside save_state (lines 147-149)
InSaveState(r) ==
    \/ pc[r] = "finally"
    \/ /\ pc[r] = "results"
       /\ \/ k[r] > Len(results[r])
          \/ /\ k[r] <= Len(results[r])
             /\ verification_info(pending_verifications,
                                  results[r][k[r]].filepath) # 0
    \/ /\ pc[r] = "row"
       /\ SR[i[r]].URL # ""
       /\ SR[i[r]].Name # ""
       /\ CheckRecords(state, Rel(SR[i[r]].Name), SR[i[r]].Hash,
                       SR[i[r]].Size, mode, disk)

\* the process is killed between two steps: the files stay as they are
CrashBetween ==
    /\ ~crashed
    /\ \E r \in Runs : pc[r] \notin {"idle", "done"}
    /\ crashed' = TRUE
    /\ UNCHANGED << rows, mode, queue_size_var, disk, state_file, state,
                    download_queue, pending_verifications, queue_size,
                    total_files, processed_files, pc, i, batch, tasks, running,
                    loop, results, k, outcome, hist >>

\* the process is killed inside save_state, after open(state_file, 'w') has
\* truncated the file and before json.dump has written all of it
CrashInSave(r) ==
    /\ ~crashed
    /\ InSaveState(r)
    /\ crashed' = TRUE
    /\ state_file' = FileTorn
    /\ UNCHANGED << rows, mode, queue_size_var, disk, state,
                    download_queue, pending_verifications, queue_size,
                    total_files, processed_files, pc, i, batch, tasks, running,
                    loop, results, k, outcome, hist >>

NextCrash ==
    \/ Next
    \/ CrashBetween
    \/ \E r \in Runs : CrashInSave(r)

SpecCrash == Init /\ [][NextCrash]_vars

\* ================================================================== claims
\* the downloads of run r's DownloadManager that have not ended
InFlight(r) == { j \in 1..Len(tasks[r]) : Unfinished(tasks[r][j]) }

\* C1: in every run, a batch holds at most N = queue_size_var items, at most
\* N download_file tasks of the run are in flight at any instant, and tasks
\* are in flight only while the run sits in wait_for_downloads, so none of a
\* batch is left when the run goes on to its next batch.
C1_ConcurrencyBound ==
    \A r \in Runs :
        /\ Len(batch[r]) <= queue_size_var
        /\ Len(tasks[r]) <= queue_size_var
        /\ Cardinality(InFlight(r)) <= queue_size_var
        /\ pc[r] # "wait" => InFlight(r) = {}

\* a full batch of two is in flight and rows remain for a later batch
C1_Witness ==
    \E r \in Runs :
        /\ queue_size_var = 2
        /\ Cardinality(InFlight(r)) = 2
        /\ i[r] < NRows

\* C2: at any time at most one download_file task is in flight for a work
\* item, whatever the sequence of start_download calls.
C2_OneWorkerPerItem ==
    \A x \in 1..Len(rows) :
        Cardinality({ w \in Runs \X (1..MaxDegree) :
                        /\ w[2] \in InFlight(w[1])
                        /\ tasks[w[1]][w[2]].item = x }) <= 1

\* a record of the sorted work list with URL and Name but neither Hash nor Size
NoFingerprint(x) ==
    /\ SR[x].URL # ""
    /\ SR[x].Name # ""
    /\ SR[x].Hash = ""
    /\ SR[x].Size = ""

\* C3: a record without Hash and without Size that is settled under Hash or
\* Size mode is never found valid by check_existing_file and never verified:
\* its only verdict is Failed, and the Ledger never gets a record for it (no
\* record is ever stored under the empty Hash).
C3_NoFingerprintNeverValid ==
    /\ "" \notin DOMAIN state
    /\ "" \notin DOMAIN state_file.data
    /\ ~SortRaises(rows) =>
         \A r \in Runs : \A x \in 1..Len(rows) :
            (NoFingerprint(x) /\ outcome[r][x].m \in {"Hash", "Size"})
               => outcome[r][x].v = "Failed"

\* such a record was transferred completely and then failed verification
C3_Witness ==
    /\ ~SortRaises(rows)
    /\ \E r \in Runs : \E x \in 1..Len(rows) :
          /\ NoFingerprint(x)
          /\ outcome[r][x] = Settled("Failed", "Hash")
          /\ disk["a"] = "c1"

\* C4: when a second run follows a first run in which every record was found
\* valid or Confirmed, under the same mode and with the files and the Ledger
\* left as the first run left them, the second run enqueues no record.
C4_SecondRunIdle ==
    ( /\ ~SortRaises(rows)
      /\ in_succession[2]
      /\ pc[2] \notin {"idle", "done"}
      /\ \A x \in 1..Len(rows) :
            /\ outcome[1][x].v \in {"valid", "Confirmed"}
            /\ outcome[1][x].m = mode )
    => \A x \in 1..Len(rows) : outcome[2][x].v \in {"none", "valid"}

\* run r is about to process a record whose Hash has a verified Ledger record
\* with an existing path that holds the file with that Hash
LedgerHolds(r) ==
    /\ pc[r] = "row"
    /\ LET row == SR[i[r]] IN
          /\ row.URL # ""
          /\ row.Name # ""
          /\ StateHit(state, row.Hash, disk)
          /\ HashOf(disk[state[row.Hash].path.file]) = row.Hash

\* the step is process_csv_row of run r
RowStep(r) ==
    /\ pc[r] = "row"
    /\ outcome[r][i[r]].v = "none"
    /\ outcome'[r][i[r]].v # "none"

\* the record is counted as processed and stays off the download queue
Skipped(r) ==
    /\ outcome'[r][i[r]].v = "valid"
    /\ download_queue' = download_queue
    /\ pending_verifications' = pending_verifications
    /\ processed_files' = processed_files + 1

\* C5 as claimed: such a record is found valid in every mode, counted as
\* processed and never put on the download queue.
C5_SkipInEveryMode ==
    [][ \A r \in Runs : (RowStep(r) /\ LedgerHolds(r)) => Skipped(r) ]_vars

\* C5 as amended: such a record is found valid, counted as processed and kept
\* off the download queue in Skip and Hash mode, and in Size mode when its
\* Size is a string of decimal digits equal to the byte length of the file at
\* the stored path.
C5_SkipWhenLedgerHolds ==
    [][ \A r \in Runs :
          ( /\ RowStep(r)
            /\ LedgerHolds(r)
            /\ \/ mode # "Size"
               \/ /\ IsDigit(SR[i[r]].Size)
                  /\ SizeOf(disk[state[SR[i[r]].Hash].path.file])
                        = IntOf(SR[i[r]].Size) )
          => Skipped(r) ]_vars

\* a second run found a record valid in Size mode through its Ledger record,
\* the file being stored under another name than the record's Name
C5_Witness ==
    /\ ~SortRaises(rows)
    /\ \E x \in 1..Len(rows) :
          /\ outcome[2][x] = Settled("valid", "Size")
          /\ SR[x].Hash \in DOMAIN state
          /\ state[SR[x].Hash].verified
          /\ state[SR[x].Hash].path # abspath(Rel(SR[x].Name))
          /\ in_succession[2]

\* C6: after a crash the Ledger file still holds a record for every Hash that
\* was on file as verified when an earlier batch completed.
C6_CrashKeepsConfirmed ==
    crashed => \A h \in durable :
                  /\ state_file.st = "ok"
                  /\ h \in DOMAIN state_file.data

Terminal == {"dropped", "valid", "Confirmed", "Failed"}

\* C7: when a run ends, every record whose own Size is usable has been
\* settled, whatever happened to the other records (counted, since a run
\* that fails before the sort gives the records no order).
C7_NoAbort ==
    \A r \in Runs :
        pc[r] = "done" =>
           Cardinality({ x \in 1..Len(rows) : outcome[r][x].v \in Terminal })
              >= Cardinality({ x \in 1..Len(rows) :
                                 rows[x].Size = "" \/ IntParses(rows[x].Size) })

\* C8: once the thread that runs the downloads has ended, running is False,
\* so wait_for_downloads returns and the run goes on.
C8_BatchCompletes ==
    \A r \in Runs : (pc[r] = "wait" /\ loop[r] # "running") => ~running[r]

\* C9: when wait_for_downloads is free to return, and while the results are
\* processed, no download_file task of the batch is unfinished and every
\* task has left its final result: False, or the path of a file it wrote.
C9_BatchTerminal ==
    \A r \in Runs :
        /\ (pc[r] = "wait" /\ ~running[r]) =>
              \A j \in 1..Len(tasks[r]) :
                 /\ tasks[r][j].st = "done"
                 /\ \/ tasks[r][j].res = Failure
                    \/ /\ tasks[r][j].res = Success(tasks[r][j].final)
                       /\ exists(disk, tasks[r][j].final)
        /\ pc[r] = "results" => InFlight(r) = {}

\* a batch of two came back with one success and one failure
C9_Witness ==
    \E r \in Runs :
        /\ pc[r] = "results"
        /\ Len(results[r]) = 2
        /\ results[r][1].result.ok
        /\ ~results[r][2].result.ok

\* C10: while a run resolves or transfers a batch, none of its earlier
\* results waits to be processed, its tasks in flight belong to this batch,
\* and the Ledger file holds exactly the Ledger in memory: every update of
\* the earlier batches has been saved.
C10_BatchesSequential ==
    \A r \in Runs :
        pc[r] \in {"batch", "wait"} =>
           /\ results[r] = << >>
           /\ \A j \in InFlight(r) :
                 \E b \in 1..Len(batch[r]) : batch[r][b].item = tasks[r][j].item
           /\ \/ state_file = FileOf(state)
              \/ state_file = FileAbsent /\ state = EmptyState

\* the first run transfers a later batch after an earlier batch of it left a
\* verified record on file
C10_Witness ==
    /\ pc[1] = "wait"
    /\ pc[2] = "idle"
    /\ i[1] > 1
    /\ InFlight(1) # {}
    /\ durable # {}

\* C11: while a run processes the results of a batch, item by item, the
\* Ledger file is not written; it changes only with the save that follows
\* the batch.
C11_SaveOncePerBatch ==
    [][ \A r \in Runs :
          (pc[r] = "results" /\ k'[r] = k[r] + 1) => state_file' = state_file ]_vars

\* C12: when a run has ended and no other run was started, every record it
\* put on the download queue had its transfer result consumed by
\* verify_and_update_state: no record is left queued and nothing is left in
\* pending_verifications.
C12_EachResultConsumed ==
    (pc[1] = "done" /\ pc[2] = "idle") =>
        /\ pending_verifications = << >>
        /\ \A x \in 1..Len(rows) : outcome[1][x].v # "queued"

\* C13: when download_nexus_mods returns the results of a batch, a record of
\* the batch for which no download was added (its resolution failed, so no
\* download_file task exists for it) has the result False.
C13_UnresolvedIsFalse ==
    [][ \A r \in Runs :
          (pc[r] = "wait" /\ pc'[r] = "results") =>
             \A j \in 1..Len(batch[r]) :
                (\A t \in 1..Len(tasks[r]) :
                    ~ /\ tasks[r][t].run = batch[r][j].run
                      /\ tasks[r][t].item = batch[r][j].item)
                => results'[r][j].result = Failure ]_vars

\* run r shares no instant with another run: the earlier runs had ended when
\* it was started and no later run has been started
Alone(r) ==
    \A x \in Runs \ {r} : IF x < r THEN in_succession[r] ELSE pc[x] = "idle"

\* C14: every update_progress call of a run reports a larger count than the
\* run's call before it, and when a batch of a run that runs alone has been
\* processed, the run's last report carries the current count and the
\* length of the work list.
C14_ProgressMonotone ==
    /\ [][ \A r \in Runs :
              (reported'[r] # reported[r] /\ pc'[r] # "done")
                 => reported'[r][1] > reported[r][1] ]_vars
    /\ [](\A r \in Runs :
            ( /\ pc[r] = "results"
              /\ k[r] > Len(results[r])
              /\ Alone(r) )
            => reported[r] = << processed_files, Len(rows) >>)

\* the last of three batches of one has been processed and reported
C14_Witness ==
    \E r \in Runs :
        /\ pc[r] = "results"
        /\ k[r] > Len(results[r])
        /\ Len(results[r]) > 0
        /\ i[r] = 3
        /\ queue_size_var = 1
        /\ reported[r] = << 3, 3 >>

\* C15: within a run a record is put on the download queue at most once,
\* resolved at most once and only after it was queued, given a download at
\* most once and only after it was resolved; a record that was dropped or
\* found valid gets none of these, and an outcome once reached (dropped,
\* valid, Confirmed or Failed) is never changed.
C15_ForwardOnly ==
    /\ [](\A r \in Runs : \A x \in 1..Len(rows) :
            /\ attempts[r][x].enq <= 1
            /\ attempts[r][x].post <= attempts[r][x].enq
            /\ attempts[r][x].get <= attempts[r][x].post
            /\ outcome[r][x].v \in {"none", "dropped", "valid"}
                  => attempts[r][x] = NoAttempt)
    /\ [][ \A r \in Runs : \A x \in 1..Len(rows) :
              outcome[r][x].v \in Terminal => outcome'[r][x] = outcome[r][x] ]_vars

\* a record was transferred and Failed, and the run has a later batch in
\* flight
C15_Witness ==
    \E r \in Runs : \E x \in 1..Len(rows) :
        /\ outcome[r][x].v = "Failed"
        /\ attempts[r][x] = [enq |-> 1, post |-> 1, get |-> 1]
        /\ Alone(r)
        /\ pc[r] = "wait"
        /\ InFlight(r) # {}

\* C16: no step removes a key from the Ledger, in memory or on file, and
\* when a record with a Hash ends as Failed (failed transfer or failed
\* verification) the Ledger holds a record for that Hash with verified false.
C16_NeverDeleted ==
    [][ /\ DOMAIN state \subseteq DOMAIN state'
        /\ DOMAIN state_file.data \subseteq DOMAIN state_file'.data
        /\ \A r \in Runs : \A x \in 1..Len(rows) :
              ( /\ outcome[r][x].v # "Failed"
                /\ outcome'[r][x].v = "Failed"
                /\ SR[x].Hash # "" )
              => /\ SR[x].Hash \in DOMAIN state'
                 /\ ~state'[SR[x].Hash].verified
                 /\ state_file'.data = state' ]_vars

\* a Hash that was on file as verified has been overwritten with verified
\* false, next to the record of another Hash
C16_Witness ==
    \E h \in durable :
        /\ h \in DOMAIN state_file.data
        /\ ~state_file.data[h].verified
        /\ DOMAIN state_file.data # {h}

\* C17: in Size mode, when process_results hands verify_and_update_state a
\* successful transfer for a record whose Size is a number, the record
\* becomes Confirmed if the byte length of the file at the returned path
\* equals that number and Failed otherwise.
C17_SizeDecides ==
    [][ \A r \in Runs :
          ( /\ pc[r] = "results"
            /\ k[r] <= Len(results[r])
            /\ k'[r] = k[r] + 1
            /\ mode = "Size"
            /\ results[r][k[r]].result.ok
            /\ verification_info(pending_verifications,
                                 results[r][k[r]].filepath) # 0 )
          => LET e == results[r][k[r]]
                 v == pending_verifications[
                         verification_info(pending_verifications, e.filepath)]
                 size == SizeOf(disk[e.result.path.file])
             IN  IntParses(v.size) =>
                    outcome'[v.run][v.item] =
                       Settled(IF size = IntOf(v.size) THEN "Confirmed"
                               ELSE "Failed", "Size") ]_vars

\* a record with Size and no Hash was Confirmed, and a record whose file has
\* another length has just been Failed after a successful transfer
C17_Witness ==
    /\ rows = << RowD, RowC, RowE >>
    /\ mode = "Size"
    /\ queue_size_var = 1
    /\ pc[1] = "results"
    /\ i[1] = 3
    /\ k[1] = 2
    /\ results[1][1].result.ok
    /\ outcome[1][2] = Settled("Confirmed", "Size")
    /\ outcome[1][3] = Settled("Failed", "Size")

\* C18: a step that changes the Ledger, in memory or on file, is a step of a
\* run thread that is loading, checking a row, processing results or
\* finishing, with no download_file task of its DownloadManager unfinished;
\* it is never a step of a download_file task.
C18_OnlyCoordinator ==
    [][ (state' # state \/ state_file' # state_file) =>
           /\ tasks' = tasks
           /\ \E r \in Runs :
                 /\ pc'[r] # pc[r] \/ k'[r] # k[r] \/ i'[r] # i[r]
                 /\ pc[r] \in {"run", "row", "results", "finally"}
                 /\ InFlight(r) = {} ]_vars

\* the results of a batch of two, the first a success, are being processed
\* and the Ledger has been updated from them
C18_Witness ==
    /\ pc[1] = "results"
    /\ Len(results[1]) = 2
    /\ results[1][1].result.ok
    /\ k[1] > 1
    /\ state # EmptyState
    /\ state_file = FileOf(state)

\* C19: when the process was stopped while a run waited in
\* wait_for_downloads, the Ledger file is completely written and no transfer
\* of the batch that had completed successfully is left without its
\* verification (the unfinished tasks end with the process).
C19_StopDrains ==
    \A r \in Runs :
        (crashed /\ pc[r] = "wait") =>
           /\ state_file.st # "torn"
           /\ \A j \in 1..Len(tasks[r]) :
                 ~(tasks[r][j].st = "done" /\ tasks[r][j].res.ok)

\* C20: when a run loads the Ledger while the Ledger file is absent, the
\* Ledger in memory is the empty mapping afterwards, the file is still
\* absent, the run goes on to its first row (the sort permitting), and no
\* record of the work list has a Ledger record.
C20_AbsentLedgerLoads ==
    [][ \A r \in Runs :
          (pc[r] = "run" /\ pc'[r] # "run" /\ state_file.st = "absent") =>
             /\ state' = EmptyState
             /\ state_file' = state_file
             /\ ~SortRaises(rows) =>
                   /\ pc'[r] = "row"
                   /\ \A x \in 1..Len(rows) : ~StateHit(state', SR[x].Hash, disk') ]_vars

\* the first run went on without a Ledger file: it has queued its records
\* and a batch of two is in flight
C20_Witness ==
    /\ state_file = FileAbsent
    /\ state = EmptyState
    /\ pc[1] = "wait"
    /\ Cardinality(InFlight(1)) = 2
    /\ \A x \in 1..Len(rows) : outcome[1][x].v \in {"queued", "none"}

\* C21: get_nexusmods_download_url returns the url field of the body when
\* the reference has a file_id, the POST answers 200 and the body is JSON
\* with a non-empty url; in every other case it returns None, and it never
\* raises, whatever the session token.
C21_ResolverTotal ==
    (probe.fn = "resolve" /\ probe.done) =>
        IF HasFileId(probe.url) /\ probe.kind = "ok"
        THEN probe.out = DirectOf(probe.url)
        ELSE probe.out = ""

\* C27: the file is written under the filename of the Content-Disposition
\* header when the header carries one, otherwise under the last path
\* component of the URL, and under the requested name only when that
\* component is empty too.
C27_NamePriority ==
    (probe.fn = "name" /\ probe.done) =>
        probe.out =
           IF CarriesFilename(probe.cd)
           THEN Rel(ContentDispositionName(probe.cd))
           ELSE IF UrlBaseName(probe.durl) # ""
                THEN Rel(UrlBaseName(probe.durl))
                ELSE probe.filepath

\* C22: in Hash mode a record is accepted as valid at the start of a run
\* only if the file at the accepted path has been hashed and found equal to
\* the record's Hash, in this step or at an earlier point, earlier runs
\* under Skip or Size mode included.
C22_HashModeHashed ==
    [][ \A r \in Runs :
          (RowStep(r) /\ mode = "Hash" /\ outcome'[r][i[r]].v = "valid") =>
             LET row == SR[i[r]] IN
             IF StateHit(state, row.Hash, disk)
             THEN << row.Hash, state[row.Hash].path.file >> \in hashed
             ELSE << row.Hash, row.Name >> \in hashed' ]_vars

\* C23: when a run that overlaps no other run has ended, and the sort of
\* the work list did not raise, processed_files equals total_files, the
\* download queue is empty and no verification is pending.
C23_RunEndsClean ==
    \A r \in Runs :
        (pc[r] = "done" /\ Alone(r) /\ ~SortRaises(rows)) =>
            /\ processed_files = total_files
            /\ download_queue = << >>
            /\ pending_verifications = << >>

\* C24: within a batch no two download_file tasks that are active at the
\* same time write to the same destination file.
C24_DistinctDestinations ==
    \A r \in Runs :
        \A j \in 1..Len(tasks[r]) :
            \A l \in 1..Len(tasks[r]) :
                ( /\ j # l
                  /\ tasks[r][j].st = "writing"
                  /\ tasks[r][l].st = "writing" )
                => tasks[r][j].final # tasks[r][l].final

\* C25: a Ledger record with verified true is never overwritten with
\* verified false while the file it points to is still on disk with the
\* content it had.
C25_NoDowngrade ==
    [][ \A h \in DOMAIN state :
          ( /\ state[h].verified
            /\ state[h].path # NonePath
            /\ exists(disk, state[h].path)
            /\ disk'[state[h].path.file] = disk[state[h].path.file] )
          => (h \in DOMAIN state' /\ state'[h].verified) ]_vars

HasRecord(r) ==
    /\ SR[i[r]].Hash # ""
    /\ SR[i[r]].Hash \in DOMAIN state

\* what the Ledger record alone says about the row run r is at
ByRecord(r) ==
    LET row == SR[i[r]] IN
    /\ StateHit(state, row.Hash, disk)
    /\ \/ mode # "Size"
       \/ /\ IsDigit(row.Size)
          /\ SizeOf(disk[state[row.Hash].path.file]) = IntOf(row.Size)

ExpectedSize(row) == IF row.Size = "" THEN 0 ELSE IntOf(row.Size)

\* C29: a run processes the records in ascending order of expected Size, a
\* record with no Size counting as size 0: every record the run has
\* processed, hence every record of the batches formed so far, has an
\* expected Size not greater than that of any record still to be processed,
\* hence of any later batch.
C29_AscendingSize ==
    \A r \in Runs :
        (pc[r] \notin {"idle", "done"} /\ ~SortRaises(rows)) =>
            \A x \in 1..NRows :
                \A y \in 1..NRows :
                    (outcome[r][x].v # "none" /\ outcome[r][y].v = "none")
                    => ExpectedSize(SR[x]) <= ExpectedSize(SR[y])

\* a record without Size, listed after a record with a Size, is in the
\* batch in flight while the record with the Size is still to be processed
C29_Witness ==
    \E r \in Runs :
        /\ pc[r] = "wait"
        /\ rows[1].Size # ""
        /\ \E j \in 1..Len(batch[r]) : SR[batch[r][j].item].Size = ""
        /\ \E y \in 1..NRows : outcome[r][y].v = "none" /\ SR[y].Size # ""

\* C30: when the transfer response has a status other than 200, the step
\* of download_file that receives it ends the task with the result False
\* and no final path, and creates or modifies no file; the task's result
\* stays False from then on.
C30_Non200Fails ==
    /\ [][ \A r \in Runs :
              \A j \in 1..Len(tasks[r]) :
                 ( /\ j <= Len(tasks'[r])
                   /\ tasks[r][j].st = "get"
                   /\ tasks'[r][j].status \notin {0, 200} )
                 => /\ disk' = disk
                    /\ tasks'[r][j].st = "done"
                    /\ tasks'[r][j].res = Failure
                    /\ tasks'[r][j].final = NonePath ]_vars
    /\ [](\A r \in Runs :
            \A j \in 1..Len(tasks[r]) :
               tasks[r][j].status \notin {0, 200} =>
                  /\ tasks[r][j].st = "done"
                  /\ tasks[r][j].res = Failure
                  /\ tasks[r][j].final = NonePath)

\* a transfer was answered with 404 and the download directory is still
\* empty
C30_Witness ==
    \E r \in Runs :
        /\ \E j \in 1..Len(tasks[r]) : tasks[r][j].status = 404
        /\ \A f \in FileNames : disk[f] = NoFile

====
